---- MODULE Spec2Model ----
(***************************************************************************)
(* Model of gemini.py: a Telegram bot that queues incoming text messages,  *)
(* and a single worker thread that, per message, calls the local           *)
(* /translate-natural endpoint (which calls Gemini), synthesises speech    *)
(* (ElevenLabs, then gTTS) and sends the text reply and the audio.         *)
(***************************************************************************)
EXTENDS Integers, Sequences, FiniteSets, TLC

\* ------------------------------------------------------------- bounds
\* Number of incoming Telegram messages considered.
MaxMsgs == 2
\* Longest ElevenLabs chunk stream considered.
MaxChunks == 2
\* Longest LLM response considered, in lines.
MaxLines == 2

Ids == 1..MaxMsgs
\* Chat ids of the senders.
Chats == {1, 2}
\* Line 45. Strings are sequences of characters (" " is whitespace).
DEFAULT_TARGET == <<"s", "o", "u", "t", "h">>
North == <<"n", "o", "r", "t", "h">>

\* Message texts: a blank text, a plain text, the four commands, /set with
\* a valid, an upper-case, an unknown and no argument, an unknown command,
\* and a text with a command after a leading blank.
TextBlank == <<" ">>
TextPlain == <<" ", "a">>
TextStart == <<"/", "s", "t", "a", "r", "t">>
TextHelp == <<"/", "h", "e", "l", "p">>
TextAbout == <<"/", "a", "b", "o", "u", "t">>
TextSet == <<"/", "s", "e", "t">>
TextSetNorth == TextSet \o <<" ">> \o North
TextSetSOUTH == TextSet \o <<" ", "S", "O", "U", "T", "H">>
TextSetX == TextSet \o <<" ", "x">>
TextUnknown == <<"/", "a">>
TextLateSet == <<" ">> \o TextSetNorth
Texts ==
    {TextBlank, TextPlain, TextStart, TextHelp, TextAbout, TextSet,
     TextSetNorth, TextSetSOUTH, TextSetX, TextUnknown, TextLateSet}
\* A chunk of the ElevenLabs stream: a bytes object of that many bytes, or
\* -1 for a chunk that is not bytes/bytearray.
Chunks == {-1, 0, 1}

\* Python's None, and an io.BytesIO object (always truthy): values that no
\* sequence of characters equals.
None == <<"None">>
BytesIO == <<"BytesIO">>

VARIABLES
    BOT_TOKEN,          \* whether os.getenv("BOT_TOKEN") is set
    GEMINI_API_KEY,     \* whether os.getenv("GEMINI_API_KEY") is set
    elevenlabs_client,  \* whether the ElevenLabs client was constructed
    mainpc,             \* position of the main thread
    received,           \* number of updates the polling loop has dispatched
    msgs,               \* id -> [chat, text] of each dispatched message
    hpc,                \* id -> position of the handle_all_text invocation
    processing_queue,   \* queue.Queue contents (message ids, head first)
    unfinished,         \* queue.Queue.unfinished_tasks
    wpc,                \* position of the queue_worker thread
    message,            \* queue_worker local: the dequeued message (0: none)
    tts_bytes,          \* queue_worker local (None until line 226 binds it)
    performer,          \* queue_worker local ("unbound" until line 226)
    ep,                 \* id -> state of the Flask thread serving that request
    enq,                \* history: message ids in the order of their put()
    started,            \* history: message ids in the order of their get()
    done,               \* history: ids for which task_done() was called
    log,                \* history: the calls queue_worker made for message
    user_settings,      \* the dict user_settings: chat id -> [target]
    put_target,         \* history: id -> the chat's target at its put()
    request_body,       \* a direct request to /translate-natural: its body
    llm_response,       \* what the LLM call does for the direct request
    result,             \* what translate_with_gemini returned (<<>>: not yet)
    response            \* what translate_endpoint answered (code 0: not yet)

vars == <<BOT_TOKEN, GEMINI_API_KEY, elevenlabs_client, mainpc, received, msgs,
          hpc, processing_queue, unfinished, wpc, message, tts_bytes,
          performer, ep, enq, started, done, log, user_settings, put_target,
          request_body, llm_response, result, response>>

config == <<BOT_TOKEN, GEMINI_API_KEY, elevenlabs_client>>
listenerVars == <<received, msgs, hpc>>
workerLocals == <<message, tts_bytes, performer>>
apiVars == <<request_body, llm_response, result, response>>

\* ------------------------------------------------------------ helpers

\* str.strip(): drop leading and trailing whitespace.
RECURSIVE LStrip(_)
LStrip(s) == IF s # <<>> /\ Head(s) = " " THEN LStrip(Tail(s)) ELSE s

RECURSIVE RStrip(_)
RStrip(s) ==
    IF s # <<>> /\ s[Len(s)] = " " THEN RStrip(SubSeq(s, 1, Len(s) - 1)) ELSE s

Strip(s) == RStrip(LStrip(s))

\* str.lower() on the letters used here.
UpperCase == <<"S", "O", "U", "T", "H", "N", "R", "K", "E", "A", "M", "I">>
LowerCase == <<"s", "o", "u", "t", "h", "n", "r", "k", "e", "a", "m", "i">>
LowerChar(c) ==
    IF \E i \in DOMAIN UpperCase : UpperCase[i] = c
    THEN LowerCase[CHOOSE i \in DOMAIN UpperCase : UpperCase[i] = c]
    ELSE c
ToLower(s) == [i \in 1..Len(s) |-> LowerChar(s[i])]

\* str.startswith(prefix).
StartsWith(s, prefix) ==
    Len(s) >= Len(prefix) /\ SubSeq(s, 1, Len(prefix)) = prefix

\* The characters of s before the first sep (all of s without one), and
\* those after it: the two parts of s.split(sep, 1).
RECURSIVE Before(_, _)
Before(s, sep) ==
    IF s = <<>> \/ Head(s) = sep THEN <<>>
    ELSE <<Head(s)>> \o Before(Tail(s), sep)
After(s, sep) == SubSeq(s, Len(Before(s, sep)) + 2, Len(s))

\* str.split(): the words between runs of whitespace.
RECURSIVE Split(_)
Split(s) ==
    LET t == LStrip(s)
        word == Before(t, " ")
    IN IF t = <<>> THEN <<>>
       ELSE <<word>> \o Split(SubSeq(t, Len(word) + 1, Len(t)))

\* A faulty put: the item goes to the front (a stack, not a queue).
QueuePut_Front(q, m) == <<m>> \o q

\* queue.Queue.put / queue.Queue.get on the underlying deque.
QueuePut(q, m) == Append(q, m)
QueueFront(q) == Head(q)
QueueRest(q) == Tail(q)

\* One entry of the per-message history: a call the program made for that
\* message, the chat it addressed and whether the call returned (ok) or raised.
Event(kind, chat, ok) == [kind |-> kind, chat |-> chat, ok |-> ok]


Kinds == {log[i].kind : i \in 1..Len(log)}
Has(kind) == kind \in Kinds
HasOk(kind) == \E i \in 1..Len(log) : log[i].kind = kind /\ log[i].ok
HasFailed(kind) == \E i \in 1..Len(log) : log[i].kind = kind /\ ~log[i].ok
Count(kind) == Cardinality({i \in 1..Len(log) : log[i].kind = kind})

\* A request body as request.get_json(silent=True) returns it: its JSON
\* kind ("none" when there is no JSON to parse), whether Python takes it as
\* false, whether 'text' in data holds (a key of an object, a substring of a
\* string, an element of an array) and, for an object, data['text'] (None
\* for a value that is no string).
Body(kind, falsy, has, value) ==
    [kind |-> kind, falsy |-> falsy, has |-> has, value |-> value]
NoBody == Body("none", TRUE, FALSE, None)
Bodies ==
    {NoBody,
     Body("object", TRUE, FALSE, None),
     Body("object", FALSE, FALSE, None),
     Body("object", FALSE, TRUE, None),
     Body("object", FALSE, TRUE, <<>>),
     Body("object", FALSE, TRUE, TextBlank),
     Body("object", FALSE, TRUE, TextPlain),
     Body("string", TRUE, FALSE, None),
     Body("string", FALSE, FALSE, None),
     Body("string", FALSE, TRUE, None),
     Body("array", TRUE, FALSE, None),
     Body("array", FALSE, FALSE, None),
     Body("array", FALSE, TRUE, None),
     Body("number", TRUE, FALSE, None),
     Body("number", FALSE, FALSE, None),
     Body("boolean", TRUE, FALSE, None),
     Body("boolean", FALSE, FALSE, None)}

\* An answer of the Flask application: the status code, the JSON body's
\* status and message, and the two translation fields (None without them).
Answer(code, status, msg, korean, roman) ==
    [code |-> code, status |-> status, message |-> msg,
     translated_korean |-> korean, romanization |-> roman]
NoResponse == Answer(0, "none", "none", None, None)

\* ---------------------------------------------------------------- Init
Init ==
    /\ BOT_TOKEN \in BOOLEAN
    /\ GEMINI_API_KEY \in BOOLEAN
    /\ elevenlabs_client \in BOOLEAN
    /\ mainpc = "main"
    /\ received = 0
    /\ msgs = [m \in Ids |-> [chat |-> 0, text |-> <<>>]]
    /\ hpc = [m \in Ids |-> "none"]
    /\ processing_queue = <<>>
    /\ unfinished = 0
    /\ wpc = "off"
    /\ message = 0
    /\ tts_bytes = None
    /\ performer = "unbound"
    /\ ep = [m \in Ids |-> [st |-> "idle", code |-> 0]]
    /\ enq = <<>>
    /\ started = <<>>
    /\ done = {}
    /\ log = <<>>
    /\ user_settings = <<>>
    /\ put_target = [m \in Ids |-> <<>>]
    /\ request_body = NoBody
    /\ llm_response = [raises |-> TRUE, text |-> <<>>]
    /\ result = <<>>
    /\ response = NoResponse

\* The process lives as long as its only non-daemon thread, the main thread.
ProcessRunning == mainpc # "exited"

\* ------------------------------------------------------- main thread

\* __main__: start the Flask thread and the worker thread (both daemon).
MainStartThreads ==
    /\ mainpc = "main"
    /\ mainpc' = "sleep"
    /\ wpc' = "get"
    /\ UNCHANGED <<config, apiVars, user_settings, put_target, listenerVars, processing_queue, unfinished,
                   workerLocals, ep, enq, started, done, log>>

\* __main__ after time.sleep(2.5): start_telegram_bot(). Without a token bot
\* is None and the call returns at once; the main thread then ends, and with
\* it the process, since the two other threads are daemon threads. With a
\* token the call blocks in bot.infinity_polling.
MainStartBot ==
    /\ mainpc = "sleep"
    /\ mainpc' = IF BOT_TOKEN THEN "polling" ELSE "exited"
    /\ UNCHANGED <<config, apiVars, user_settings, put_target, listenerVars, processing_queue, unfinished, wpc,
                   workerLocals, ep, enq, started, done, log>>

ListenerRunning == mainpc = "polling"

\* ---------------------------------------------------------- listener

\* telebot's command filter: a text is a command when it starts with "/";
\* the command is the first word up to an "@", without the "/".
is_command(text) == StartsWith(text, <<"/">>)
extract_command(text) ==
    IF is_command(text) THEN Tail(Before(Split(text)[1], "@")) ELSE None

\* A faulty command filter that overlooks leading whitespace.
Dispatch_Stripped(text) ==
    LET command == extract_command(LStrip(text))
    IN IF command \in {Tail(TextStart), Tail(TextHelp)} THEN "send_welcome"
       ELSE IF command = Tail(TextSet) THEN "cmd_set"
       ELSE IF command = Tail(TextAbout) THEN "cmd_about"
       ELSE "handle_all_text"

\* The handler a text update goes to: the first registered handler whose
\* filter accepts it (lines 161, 169, 179, 186, in this order).
Dispatch(text) ==
    LET command == extract_command(text)
    IN IF command \in {Tail(TextStart), Tail(TextHelp)} THEN "send_welcome"
       ELSE IF command = Tail(TextSet) THEN "cmd_set"
       ELSE IF command = Tail(TextAbout) THEN "cmd_about"
       ELSE "handle_all_text"

\* A faulty default: "north".
get_user_target_North(chat) ==
    IF chat \in DOMAIN user_settings THEN user_settings[chat].target
    ELSE North

\* A faulty lookup that ignores the store.
get_user_target_Default(chat) == DEFAULT_TARGET

\* Lines 55-56: user_settings.get(chat_id, {}).get("target", DEFAULT_TARGET).
get_user_target(chat) ==
    IF chat \in DOMAIN user_settings
    THEN IF "target" \in DOMAIN user_settings[chat]
         THEN user_settings[chat].target
         ELSE DEFAULT_TARGET
    ELSE DEFAULT_TARGET

\* Lines 58-59: user_settings[chat_id] = {"target": value}.
set_user_target(chat, value) ==
    user_settings' =
        [c \in DOMAIN user_settings \cup {chat} |->
            IF c = chat THEN [target |-> value] ELSE user_settings[c]]

\* A faulty line 172 that checks the number of words only.
BadArgument_LengthOnly(parts) == Len(parts) < 2

\* cmd_set, line 172: the argument is missing or is neither south nor north.
BadArgument(parts) ==
    Len(parts) < 2 \/ ToLower(parts[2]) \notin {DEFAULT_TARGET, North}

\* infinity_polling hands a text update to an invocation of its handler on
\* the handler thread pool.
Receive(c, t) ==
    /\ ListenerRunning
    /\ received < MaxMsgs
    /\ received' = received + 1
    /\ msgs' = [msgs EXCEPT ![received + 1] = [chat |-> c, text |-> t]]
    /\ hpc' = [hpc EXCEPT ![received + 1] = "handle"]
    /\ UNCHANGED <<config, apiVars, user_settings, put_target, mainpc, processing_queue, unfinished, wpc,
                   workerLocals, ep, enq, started, done, log>>

\* handle_all_text, lines 188-189: the guard and processing_queue.put.
HandlePut(m) ==
    /\ ProcessRunning
    /\ hpc[m] = "handle"
    /\ Dispatch(msgs[m].text) = "handle_all_text"
    /\ IF Strip(msgs[m].text) # <<>>
       THEN /\ processing_queue' = QueuePut(processing_queue, m)
            /\ unfinished' = unfinished + 1
            /\ enq' = Append(enq, m)
            /\ put_target' =
                  [put_target EXCEPT ![m] = get_user_target(msgs[m].chat)]
            /\ hpc' = [hpc EXCEPT ![m] = "ack"]
       ELSE /\ hpc' = [hpc EXCEPT ![m] = "skipped"]
            /\ UNCHANGED <<processing_queue, unfinished, enq, put_target>>
    /\ UNCHANGED <<config, apiVars, user_settings, mainpc, received, msgs, wpc, workerLocals, ep,
                   started, done, log>>

\* handle_all_text, line 190: the acknowledgment is sent; the handler ends
\* whether the send returns or raises.
HandleAck(m) ==
    /\ ProcessRunning
    /\ hpc[m] = "ack"
    /\ hpc' = [hpc EXCEPT ![m] = "acked"]
    /\ UNCHANGED <<config, apiVars, user_settings, put_target, mainpc, received, msgs, processing_queue,
                   unfinished, wpc, workerLocals, ep, enq, started, done, log>>

\* send_welcome, lines 162-167: one message to the chat, nothing else.
SendWelcome(m) ==
    /\ ProcessRunning
    /\ hpc[m] = "handle"
    /\ Dispatch(msgs[m].text) = "send_welcome"
    /\ hpc' = [hpc EXCEPT ![m] = "welcome"]
    /\ UNCHANGED <<config, apiVars, user_settings, put_target, mainpc,
                   received, msgs, processing_queue, unfinished, wpc,
                   workerLocals, ep, enq, started, done, log>>

\* cmd_about, lines 180-184: one message to the chat, nothing else.
CmdAbout(m) ==
    /\ ProcessRunning
    /\ hpc[m] = "handle"
    /\ Dispatch(msgs[m].text) = "cmd_about"
    /\ hpc' = [hpc EXCEPT ![m] = "about"]
    /\ UNCHANGED <<config, apiVars, user_settings, put_target, mainpc,
                   received, msgs, processing_queue, unfinished, wpc,
                   workerLocals, ep, enq, started, done, log>>

\* cmd_set, lines 170-177: the usage hint, or the store update and its
\* confirmation.
CmdSet(m) ==
    /\ ProcessRunning
    /\ hpc[m] = "handle"
    /\ Dispatch(msgs[m].text) = "cmd_set"
    /\ LET parts == Split(Strip(msgs[m].text))
       IN IF BadArgument(parts)
          THEN /\ hpc' = [hpc EXCEPT ![m] = "usage"]
               /\ UNCHANGED user_settings
          ELSE /\ set_user_target(msgs[m].chat, ToLower(parts[2]))
               /\ hpc' = [hpc EXCEPT ![m] = "set"]
    /\ UNCHANGED <<config, apiVars, put_target, mainpc, received, msgs,
                   processing_queue, unfinished, wpc, workerLocals, ep, enq,
                   started, done, log>>

\* ------------------------------------------- translation (Flask thread)

\* What the LLM call can do: raise, or return a text of at most MaxLines
\* lines. A line is its label ("korea" for a line starting with
\* "teks korea:", "roman" for "romanisasi:", "other" for any other line) and
\* the characters after the first colon.
LineLabels == {"korea", "roman", "other"}
LineValues == {<<" ">>, <<"x">>}
Lines == [label : LineLabels, value : LineValues]
LLMTexts == UNION {[1..n -> Lines] : n \in 0..MaxLines}
Raise == [raises |-> TRUE, text |-> <<>>]
LLMOutcomes == {Raise} \cup {[raises |-> FALSE, text |-> t] : t \in LLMTexts}

\* translate_with_gemini, lines 114-120: the last line of each label wins.
RECURSIVE ParseField(_, _)
ParseField(lines, label) ==
    IF lines = <<>> THEN <<>>
    ELSE IF lines[Len(lines)].label = label
         THEN Strip(lines[Len(lines)].value)
         ELSE ParseField(SubSeq(lines, 1, Len(lines) - 1), label)

\* A faulty translate_with_gemini without the check of line 121.
translate_with_gemini_NoCheck(key, outcome) ==
    IF ~key \/ outcome.raises THEN <<None, None>>
    ELSE <<ParseField(outcome.text, "korea"), ParseField(outcome.text, "roman")>>

\* translate_with_gemini: (korean_text, romanization), or (None, None) when
\* the key is missing, the call raises or a field is empty.
translate_with_gemini(key, outcome) ==
    IF ~key \/ outcome.raises THEN <<None, None>>
    ELSE LET korean_text == ParseField(outcome.text, "korea")
             romanization == ParseField(outcome.text, "roman")
         IN IF korean_text = <<>> \/ romanization = <<>>
            THEN <<None, None>>
            ELSE <<korean_text, romanization>>

\* Python truthiness of a returned field: None and "" are false.
Truthy(x) == x # None /\ x # <<>>

\* translate_endpoint, lines 134-135: the body's text field is a non-blank
\* string (None stands for a body without a string field text).
ValidText(data) == data # None /\ Strip(data) # <<>>

\* translate_endpoint, lines 138-148: the status code for a valid text.
TranslateStatus(key, outcome) ==
    LET r == translate_with_gemini(key, outcome)
    IN IF Truthy(r[1]) /\ Truthy(r[2]) THEN 200 ELSE 500

\* The status codes translate_endpoint can answer a valid text with, over
\* everything the LLM call can do.
TranslateStatuses ==
    [key \in BOOLEAN |-> {TranslateStatus(key, o) : o \in LLMOutcomes}]

\* The lines an LLM response is made of here: the two labelled lines as the
\* prompt asks for them, each label in another case with a blank or a
\* colon in its value, and two lines without a label.
LabelKorea == <<"t", "e", "k", "s", " ", "k", "o", "r", "e", "a", ":">>
LabelRoman == <<"r", "o", "m", "a", "n", "i", "s", "a", "s", "i", ":">>
LineKorea == <<"T", "e", "k", "s", " ", "K", "o", "r", "e", "a", ":", " ", "k">>
LineKoreaEmpty == <<" ", "T", "E", "K", "S", " ", "K", "O", "R", "E", "A", ":", " ">>
LineRoman ==
    <<"R", "o", "m", "a", "n", "i", "s", "a", "s", "i", ":", "r", ":", "r">>
LineRomanEmpty == <<"r", "o", "m", "a", "n", "i", "s", "a", "s", "i", ":">>
LineNoColon == <<"T", "e", "k", "s", " ", "K", "o", "r", "e", "a", " ", "k">>
LineOther == <<"x">>
RawLines ==
    {LineKorea, LineKoreaEmpty, LineRoman, LineRomanEmpty, LineNoColon,
     LineOther}
RawTexts == UNION {[1..n -> RawLines] : n \in 0..MaxLines}
RawOutcomes == {Raise} \cup {[raises |-> FALSE, text |-> t] : t \in RawTexts}

\* translate_with_gemini, lines 115-119: one line of the response, stripped
\* and matched against the two labels; its value is what follows the first
\* colon.
ParseLine(line) ==
    LET l == Strip(line)
    IN IF StartsWith(ToLower(l), LabelKorea)
       THEN [label |-> "korea", value |-> After(l, ":")]
       ELSE IF StartsWith(ToLower(l), LabelRoman)
            THEN [label |-> "roman", value |-> After(l, ":")]
            ELSE [label |-> "other", value |-> <<>>]

\* The response with every line parsed.
Parsed(outcome) ==
    [raises |-> outcome.raises,
     text |-> [i \in 1..Len(outcome.text) |-> ParseLine(outcome.text[i])]]

\* The answers of translate_endpoint, lines 135 and 148, and the answer
\* Flask gives when the view function raises.
BadRequest ==
    Answer(400, "error", "Field 'text' wajib ada.", None, None)
TranslationFailed ==
    Answer(500, "error", "Gagal hubungi Gemini API.", None, None)
ServerError == Answer(500, "html", "Internal Server Error", None, None)

\* translate_endpoint, lines 133-148. Line 134 raises TypeError when data
\* is a number or true ('text' in data) and when data is a string or an
\* array that contains 'text' (data['text']).
translate_endpoint(body, key, outcome) ==
    LET data == IF body.falsy THEN Body("object", TRUE, FALSE, None) ELSE body
    IN IF data.kind \in {"number", "boolean"} THEN ServerError
       ELSE IF ~data.has THEN BadRequest
       ELSE IF data.kind # "object" THEN ServerError
       ELSE IF ~ValidText(data.value) THEN BadRequest
       ELSE LET r == translate_with_gemini(key, outcome)
            IN IF Truthy(r[1]) /\ Truthy(r[2])
               THEN Answer(200, "success", "none", r[1], r[2])
               ELSE TranslationFailed

\* translate_with_gemini called on its own.
CallTranslate ==
    /\ result = <<>>
    /\ result' = translate_with_gemini(GEMINI_API_KEY, Parsed(llm_response))
    /\ UNCHANGED <<config, user_settings, put_target, mainpc, listenerVars,
                   processing_queue, unfinished, wpc, workerLocals, ep, enq,
                   started, done, log, request_body, llm_response, response>>

\* A client other than the worker posts request_body to /translate-natural.
CallEndpoint ==
    /\ response = NoResponse
    /\ response' = translate_endpoint(request_body, GEMINI_API_KEY,
                                      Parsed(llm_response))
    /\ UNCHANGED <<config, user_settings, put_target, mainpc, listenerVars,
                   processing_queue, unfinished, wpc, workerLocals, ep, enq,
                   started, done, log, request_body, llm_response, result>>

\* The JSON body's "status" field that translate_endpoint sends with a code.
BodyStatus(code) == IF code = 200 THEN "success" ELSE "error"

\* The worker's request body: {"text": incoming}, line 201 and 206.
RequestText(m) == Strip(msgs[m].text)

\* The worker is blocked in requests.post for message m.
Waiting(m) == wpc = "wait" /\ message = m

\* The Flask thread writes its response: to the worker if it still waits,
\* otherwise to a connection the client has given up.
Respond(m, code) ==
    ep' = [ep EXCEPT ![m] = IF Waiting(m) THEN [st |-> "resp", code |-> code]
                                          ELSE [st |-> "closed", code |-> 0]]

\* translate_endpoint up to the LLM call: validation (400), and
\* translate_with_gemini's key check (raise, hence 500).
EndpointBegin(m) ==
    /\ ProcessRunning
    /\ ep[m].st = "recv"
    /\ IF ~ValidText(RequestText(m)) THEN Respond(m, 400)
       ELSE IF ~GEMINI_API_KEY
            THEN Respond(m, TranslateStatus(GEMINI_API_KEY, Raise))
            ELSE ep' = [ep EXCEPT ![m] = [st |-> "llm", code |-> 0]]
    /\ UNCHANGED <<config, apiVars, user_settings, put_target, mainpc, listenerVars, processing_queue, unfinished,
                   wpc, workerLocals, enq, started, done, log>>

\* model.generate_content returns or raises; the rest of translate_endpoint.
EndpointLLMReturn(m) ==
    /\ ProcessRunning
    /\ ep[m].st = "llm"
    /\ \E code \in TranslateStatuses[GEMINI_API_KEY] : Respond(m, code)
    /\ UNCHANGED <<config, apiVars, user_settings, put_target, mainpc, listenerVars, processing_queue, unfinished,
                   wpc, workerLocals, enq, started, done, log>>

\* ------------------------------------------------------ speech synthesis

\* What elevenlabs_client.text_to_speech.convert can do: raise, or return a
\* stream of at most MaxChunks chunks.
Streams == UNION {[1..n -> Chunks] : n \in 0..MaxChunks}
ElevenOutcomes ==
    {[raises |-> TRUE, chunks |-> <<>>]}
        \cup {[raises |-> FALSE, chunks |-> c] : c \in Streams}

\* The marker of a call that raised instead of returning.
Raised == <<"raised">>

\* get_elevenlabs_tts_bytes, lines 81-84: bytes written to the buffer.
RECURSIVE NBytes(_)
NBytes(chunks) ==
    IF chunks = <<>> THEN 0
    ELSE (IF Head(chunks) >= 0 THEN Head(chunks) ELSE 0) + NBytes(Tail(chunks))

\* A faulty get_elevenlabs_tts_bytes: the check at lines 86-87 is missing,
\* so an empty buffer is returned as audio.
get_elevenlabs_tts_bytes_NoEmptyCheck(client, outcome) ==
    IF ~client THEN Raised
    ELSE IF outcome.raises THEN Raised
    ELSE BytesIO

\* get_elevenlabs_tts_bytes: the buffer, or Raised.
get_elevenlabs_tts_bytes(client, outcome) ==
    IF ~client THEN Raised
    ELSE IF outcome.raises THEN Raised
    ELSE IF NBytes(outcome.chunks) = 0 THEN Raised
    ELSE BytesIO

\* convert returned a stream that carries no byte of audio.
EmptyStream(outcome) ==
    /\ ~outcome.raises
    /\ \A i \in 1..Len(outcome.chunks) : outcome.chunks[i] <= 0

\* make_tts_korean_bytes: the buffer, or Raised when gTTS raises.
make_tts_korean_bytes(gttsOk) == IF gttsOk THEN BytesIO ELSE Raised

\* ------------------------------------------------------------- worker

WorkerUnchanged ==
    <<config, apiVars, user_settings, put_target, mainpc, listenerVars, enq>>

\* The chat_id local of queue_worker, line 200.
chat_id == msgs[message].chat

LoggedAll(evs) == log' = log \o evs
Logged(kind, ok) == LoggedAll(<<Event(kind, chat_id, ok)>>)

\* processing_queue.task_done().
TaskDone ==
    /\ unfinished' = unfinished - 1
    /\ done' = done \cup {message}

\* Line 199: processing_queue.get() blocks until an item is there.
WorkerGet ==
    /\ ProcessRunning
    /\ wpc = "get"
    /\ processing_queue # <<>>
    /\ message' = QueueFront(processing_queue)
    /\ processing_queue' = QueueRest(processing_queue)
    /\ started' = Append(started, QueueFront(processing_queue))
    /\ wpc' = "post"
    /\ log' = <<>>
    /\ UNCHANGED <<WorkerUnchanged, unfinished, tts_bytes, performer, ep, done>>

\* Lines 204-209: requests.post either fails to connect (raises) or hands
\* the request to a Flask thread and waits for the response.
WorkerPost ==
    /\ ProcessRunning
    /\ wpc = "post"
    /\ \/ /\ wpc' = "except"
          /\ Logged("translate", FALSE)
          /\ UNCHANGED ep
       \/ /\ wpc' = "wait"
          /\ ep' = [ep EXCEPT ![message] = [st |-> "recv", code |-> 0]]
          /\ UNCHANGED log
    /\ UNCHANGED <<WorkerUnchanged, processing_queue, unfinished, done, workerLocals,
                   started>>

\* Line 208: timeout=30 passes with no response; requests.post raises and
\* the Flask thread goes on with the request.
WorkerTimeout ==
    /\ ProcessRunning
    /\ wpc = "wait"
    /\ ep[message].st \in {"recv", "llm"}
    /\ wpc' = "except"
    /\ Logged("translate", FALSE)
    /\ UNCHANGED <<WorkerUnchanged, processing_queue, unfinished, done, workerLocals,
                   ep, started>>

\* Lines 210-218: the response arrived. raise_for_status raises on 4xx/5xx;
\* a body with status "error" is reported and the message dropped (the send
\* is inside the try: if it raises, the except clause runs); otherwise the
\* translation is taken.
WorkerResponse ==
    /\ ProcessRunning
    /\ wpc = "wait"
    /\ ep[message].st = "resp"
    /\ ep' = [ep EXCEPT ![message] = [st |-> "closed", code |-> 0]]
    /\ IF ep[message].code >= 400
       THEN /\ wpc' = "except"
            /\ Logged("translate", FALSE)
            /\ UNCHANGED <<unfinished, done>>
       ELSE IF BodyStatus(ep[message].code) = "error"
       THEN \E ok \in BOOLEAN :
              IF ok
              THEN /\ LoggedAll(<<Event("translate", chat_id, FALSE),
                                           Event("errApi", chat_id, TRUE),
                                           Event("task_done", chat_id, TRUE)>>)
                   /\ TaskDone
                   /\ wpc' = "get"
              ELSE /\ LoggedAll(<<Event("translate", chat_id, FALSE),
                                           Event("errApi", chat_id, FALSE)>>)
                   /\ UNCHANGED <<unfinished, done>>
                   /\ wpc' = "except"
       ELSE /\ wpc' = "tts"
            /\ Logged("translate", TRUE)
            /\ UNCHANGED <<unfinished, done>>
    /\ UNCHANGED <<WorkerUnchanged, processing_queue, workerLocals, started>>

\* Lines 220-223, the except clause: report, task_done, continue (the
\* cooldown at line 260 is skipped). A raise of the send leaves the function.
WorkerExcept ==
    /\ ProcessRunning
    /\ wpc = "except"
    /\ \E ok \in BOOLEAN :
          IF ok
          THEN /\ LoggedAll(<<Event("errTranslate", chat_id, TRUE),
                                       Event("task_done", chat_id, TRUE)>>)
               /\ TaskDone
               /\ wpc' = "get"
          ELSE /\ Logged("errTranslate", FALSE)
               /\ UNCHANGED <<unfinished, done>>
               /\ wpc' = "dead"
    /\ UNCHANGED <<WorkerUnchanged, processing_queue, workerLocals, ep,
                   started>>

\* A faulty line 237: the label of line 230 copied to the gTTS branch.
FallbackPerformer_Copied == "ElevenLabs"

\* Lines 230 and 237: the performer label set after each provider's success.
PrimaryPerformer == "ElevenLabs"
FallbackPerformer == "gTTS"

\* A faulty line 252: the audio is sent unconditionally.
HasAudio_Always(bytes) == TRUE

\* Line 252: "if tts_bytes".
HasAudio(bytes) == Truthy(bytes)

\* Where lines 226-232 go: to the ElevenLabs call with a client, to the
\* except clause's gTTS call without one.
SynthFirst(client) == IF client THEN "primary" ELSE "fallback"

\* Lines 226-232: reset the locals; with a client, call ElevenLabs; without
\* one, raise RuntimeError, which the except clause at 233 answers by
\* calling gTTS.
WorkerSynthStart ==
    /\ ProcessRunning
    /\ wpc = "tts"
    /\ tts_bytes' = None
    /\ performer' = "TTS"
    /\ wpc' = SynthFirst(elevenlabs_client)
    /\ UNCHANGED <<WorkerUnchanged, processing_queue, unfinished, done, message, ep,
                   started, log>>

\* Lines 229-230 and 233-234: get_elevenlabs_tts_bytes returns or raises.
WorkerPrimaryReturn ==
    /\ ProcessRunning
    /\ wpc = "primary"
    /\ \E outcome \in ElevenOutcomes :
          LET r == get_elevenlabs_tts_bytes(elevenlabs_client, outcome)
              ev(ok) == [kind |-> "primary", chat |-> chat_id, ok |-> ok,
                         empty |-> EmptyStream(outcome)]
          IN IF r # Raised
             THEN /\ tts_bytes' = r
                  /\ performer' = PrimaryPerformer
                  /\ wpc' = "text"
                  /\ LoggedAll(<<ev(TRUE)>>)
             ELSE /\ wpc' = "fallback"
                  /\ LoggedAll(<<ev(FALSE)>>)
                  /\ UNCHANGED <<tts_bytes, performer>>
    /\ UNCHANGED <<WorkerUnchanged, processing_queue, unfinished, done, message, ep,
                   started>>

\* Lines 235-238: make_tts_korean_bytes returns or raises.
WorkerFallbackReturn ==
    /\ ProcessRunning
    /\ wpc = "fallback"
    /\ \E r \in {make_tts_korean_bytes(gttsOk) : gttsOk \in BOOLEAN} :
             IF r # Raised
             THEN /\ tts_bytes' = r
                  /\ performer' = FallbackPerformer
                  /\ wpc' = "text"
                  /\ Logged("fallback", TRUE)
             ELSE /\ wpc' = "errtts"
                  /\ Logged("fallback", FALSE)
                  /\ UNCHANGED <<tts_bytes, performer>>
    /\ UNCHANGED <<WorkerUnchanged, processing_queue, unfinished, done, message, ep,
                   started>>

\* Line 239: the error message after both providers failed. The send is in
\* an except clause with no handler around it: a raise leaves the function.
WorkerErrTTS ==
    /\ ProcessRunning
    /\ wpc = "errtts"
    /\ \E ok \in BOOLEAN :
          /\ Logged("errTTS", ok)
          /\ wpc' = IF ok THEN "text" ELSE "dead"
    /\ UNCHANGED <<WorkerUnchanged, processing_queue, unfinished, done, workerLocals,
                   ep, started>>

\* Lines 242-252: the text reply; a raise is printed and dropped.
WorkerSendText ==
    /\ ProcessRunning
    /\ wpc = "text"
    /\ \E ok \in BOOLEAN :
          LoggedAll(<<[kind |-> "text", chat |-> chat_id, ok |-> ok,
                       target |-> get_user_target(chat_id)]>>)
    /\ wpc' = IF HasAudio(tts_bytes) THEN "audio" ELSE "task_done"
    /\ UNCHANGED <<WorkerUnchanged, processing_queue, unfinished, done, workerLocals,
                   ep, started>>

\* Lines 253-256: the audio attachment, labelled with performer.
WorkerSendAudio ==
    /\ ProcessRunning
    /\ wpc = "audio"
    /\ \E ok \in BOOLEAN :
          /\ LoggedAll(<<[kind |-> "audio", chat |-> chat_id,
                                   ok |-> ok, performer |-> performer]>>)
          /\ wpc' = IF ok THEN "task_done" ELSE "erraudio"
    /\ UNCHANGED <<WorkerUnchanged, processing_queue, unfinished, done, workerLocals,
                   ep, started>>

\* Line 257: the error message after the audio send raised; again a send in
\* an except clause, whose raise leaves the function.
WorkerErrAudio ==
    /\ ProcessRunning
    /\ wpc = "erraudio"
    /\ \E ok \in BOOLEAN :
          /\ Logged("errAudio", ok)
          /\ wpc' = IF ok THEN "task_done" ELSE "dead"
    /\ UNCHANGED <<WorkerUnchanged, processing_queue, unfinished, done, workerLocals,
                   ep, started>>

\* Line 259.
WorkerTaskDone ==
    /\ ProcessRunning
    /\ wpc = "task_done"
    /\ TaskDone
    /\ Logged("task_done", TRUE)
    /\ wpc' = "sleep"
    /\ UNCHANGED <<WorkerUnchanged, processing_queue, workerLocals, ep,
                   started>>

\* Line 260: time.sleep(1.5), then the next iteration.
WorkerSleep ==
    /\ ProcessRunning
    /\ wpc = "sleep"
    /\ Logged("sleep", TRUE)
    /\ wpc' = "get"
    /\ UNCHANGED <<WorkerUnchanged, processing_queue, unfinished, done, workerLocals,
                   ep, started>>

\* ------------------------------------------------------ specification

Main == MainStartThreads \/ MainStartBot

Listener ==
    \/ \E c \in Chats, t \in Texts : Receive(c, t)
    \/ \E m \in Ids : HandlePut(m)
    \/ \E m \in Ids : HandleAck(m)
    \/ \E m \in Ids : SendWelcome(m)
    \/ \E m \in Ids : CmdAbout(m)
    \/ \E m \in Ids : CmdSet(m)

Endpoint == \E m \in Ids : EndpointBegin(m) \/ EndpointLLMReturn(m)

Worker ==
    \/ WorkerGet
    \/ WorkerPost
    \/ WorkerTimeout
    \/ WorkerResponse
    \/ WorkerExcept
    \/ WorkerSynthStart
    \/ WorkerPrimaryReturn
    \/ WorkerFallbackReturn
    \/ WorkerErrTTS
    \/ WorkerSendText
    \/ WorkerSendAudio
    \/ WorkerErrAudio
    \/ WorkerTaskDone
    \/ WorkerSleep

Next == Main \/ Listener \/ Endpoint \/ Worker

Spec == Init /\ [][Next]_vars

\* The program when no command is sent to the bot: every update is a blank
\* or a plain text, which goes to handle_all_text.
PlainTexts == {TextBlank, TextPlain}
PlainListener ==
    \/ \E c \in Chats, t \in PlainTexts : Receive(c, t)
    \/ \E m \in Ids : HandlePut(m)
    \/ \E m \in Ids : HandleAck(m)
PlainNext == Main \/ PlainListener \/ Endpoint \/ Worker

PlainSpec == Init /\ [][PlainNext]_vars

\* The two functions of the translation API on their own: any body a client
\* can post, any response of the LLM.
ApiInit ==
    /\ BOT_TOKEN \in BOOLEAN
    /\ GEMINI_API_KEY \in BOOLEAN
    /\ elevenlabs_client \in BOOLEAN
    /\ mainpc = "main"
    /\ received = 0
    /\ msgs = [m \in Ids |-> [chat |-> 0, text |-> <<>>]]
    /\ hpc = [m \in Ids |-> "none"]
    /\ processing_queue = <<>>
    /\ unfinished = 0
    /\ wpc = "off"
    /\ message = 0
    /\ tts_bytes = None
    /\ performer = "unbound"
    /\ ep = [m \in Ids |-> [st |-> "idle", code |-> 0]]
    /\ enq = <<>>
    /\ started = <<>>
    /\ done = {}
    /\ log = <<>>
    /\ user_settings = <<>>
    /\ put_target = [m \in Ids |-> <<>>]
    /\ request_body \in Bodies
    /\ llm_response \in RawOutcomes
    /\ result = <<>>
    /\ response = NoResponse

ApiNext == CallTranslate \/ CallEndpoint

ApiSpec == ApiInit /\ [][ApiNext]_vars

\* Every thread that can take a step eventually takes one; every external
\* call eventually returns or raises.
FairSpec ==
    /\ PlainSpec
    /\ WF_vars(Main)
    /\ WF_vars(Worker)
    /\ WF_vars(Endpoint)
    /\ \A m \in Ids : WF_vars(HandlePut(m)) /\ WF_vars(HandleAck(m))

\* --------------------------------------------------------------- claims

\* The worker has left the iteration for `message`: it is back at the
\* dequeue point, or queue_worker has ended with an uncaught exception.
BackAtGet == wpc = "get" /\ message # 0
WorkerEnded == wpc = "dead"

\* The chat messages among the logged calls.
SendKinds == {"errApi", "errTranslate", "errTTS", "text", "audio", "errAudio"}
IsSend(e) == e.kind \in SendKinds
Sends == SelectSeq(log, IsSend)
SendsOfKinds == [i \in 1..Len(Sends) |-> Sends[i].kind]

PrimaryInvoked == wpc = "primary" \/ Has("primary")
FallbackInvoked == wpc = "fallback" \/ Has("fallback")

\* C1: the worker loop never terminates because of one message: whatever
\* steps of a message fail, queue_worker does not end.
C1_WorkerNeverTerminates == ~WorkerEnded

\* C2: whenever the translation of the dequeued message succeeded, the
\* worker has attempted the text reply by the time it is through with the
\* message, whatever speech synthesis did.
C2_TextAttemptedAfterTranslation ==
    (HasOk("translate") /\ (BackAtGet \/ WorkerEnded)) => Has("text")

\* C3: the messages the worker has started processing are, in order, a
\* prefix of the messages in the order of their put(): nothing is
\* reordered, skipped or taken twice.
C3_FIFO ==
    /\ Len(started) <= Len(enq)
    /\ \A i \in 1..Len(started) : started[i] = enq[i]
    /\ \A i, j \in 1..Len(enq) : i # j => enq[i] # enq[j]

\* C3 witness: two handlers put in the opposite order of their updates, and
\* the worker has started both messages.
C3_Witness == enq = <<2, 1>> /\ started = <<2, 1>>

\* C4: under fairness every enqueued message is eventually marked done.
C4_EveryMessageDone ==
    \A m \in Ids : (\E i \in 1..Len(enq) : enq[i] = m) ~> (m \in done)

\* C5: gTTS is invoked exactly when ElevenLabs is unconfigured or its call
\* failed (an empty stream is a failure), never after an ElevenLabs success,
\* and the synthesis failure is reported only after gTTS was tried and failed.
C5_TwoTierFallback ==
    /\ Count("primary") <= 1 /\ Count("fallback") <= 1
    /\ PrimaryInvoked => (elevenlabs_client /\ HasOk("translate"))
    /\ FallbackInvoked => HasOk("translate")
    /\ \A i \in 1..Len(log) :
          (log[i].kind = "primary" /\ log[i].empty) => ~log[i].ok
    /\ (HasOk("translate") /\ wpc # "tts") =>
          (FallbackInvoked <=> (~elevenlabs_client \/ HasFailed("primary")))
    /\ (wpc = "errtts" \/ Has("errTTS")) => HasFailed("fallback")

\* C5 witness: ElevenLabs returned an empty stream and gTTS then succeeded.
C5_Witness ==
    /\ \E i \in 1..Len(log) : log[i].kind = "primary" /\ log[i].empty
    /\ HasOk("fallback")

\* C6 as stated: when both providers failed, the only chat message sent for
\* the message is the text reply (no audio, no error message).
C6_OnlyTextReply ==
    HasFailed("fallback") =>
        \A i \in 1..Len(Sends) : Sends[i].ok => Sends[i].kind = "text"

\* C6 as amended: when both providers failed, the chat messages attempted
\* for the message are one TTS error message, then at most one text reply;
\* no audio is sent. The text reply follows when the error send returned.
C6_ErrorThenTextNoAudio ==
    HasFailed("fallback") =>
        /\ SendsOfKinds \in {<<>>, <<"errTTS">>, <<"errTTS", "text">>}
        /\ SendsOfKinds = <<>> => wpc = "errtts"
        /\ BackAtGet => (SendsOfKinds = <<"errTTS", "text">> /\ Sends[1].ok)

\* C6 witness: both providers failed and the worker is through with the
\* message, having sent the error message and the text reply.
C6_Witness ==
    /\ HasFailed("fallback")
    /\ BackAtGet
    /\ HasOk("errTTS")
    /\ HasOk("text")

\* C7: when translation failed, the worker sends exactly one error message,
\* makes no synthesis attempt, sends no text reply and no audio, and goes on
\* to dequeue the next message.
C7_TranslationFailureHandled ==
    HasFailed("translate") =>
        /\ ~PrimaryInvoked /\ ~FallbackInvoked
        /\ ~Has("text") /\ ~Has("audio")
        /\ ~WorkerEnded
        /\ BackAtGet =>
              Cardinality({i \in 1..Len(Sends) : Sends[i].ok}) = 1

\* C8: whenever the worker is back at the dequeue point after a message, it
\* has performed the cooldown for that message.
C8_CooldownBeforeNextGet == BackAtGet => Has("sleep")

\* Calls to the LLM or to a synthesis provider that are in flight.
InFlight ==
    Cardinality({m \in Ids : ep[m].st = "llm"})
        + (IF wpc \in {"primary", "fallback"} THEN 1 ELSE 0)

\* C9: at most one call to the LLM or a synthesis provider is in flight.
C9_AtMostOneInFlight == InFlight <= 1

\* C10: without a bot token the listener does not start and the process
\* keeps running.
C10_NoTokenProcessKeepsRunning ==
    ~BOT_TOKEN => (~ListenerRunning /\ ProcessRunning)

\* The kinds of the error messages the worker sends to the chat.
ErrorKinds == {"errApi", "errTranslate", "errTTS", "errAudio"}

\* C11: a failed text send or audio send is followed by a notification
\* attempt to the same chat and is otherwise swallowed: the worker finishes
\* the message and goes back to the dequeue point.
C11_DeliveryFailureNotifiedAndSwallowed ==
    /\ \A i \in 1..Len(log) :
          (log[i].kind \in {"text", "audio"} /\ ~log[i].ok
                /\ (BackAtGet \/ WorkerEnded)) =>
             /\ i < Len(log)
             /\ log[i + 1].kind \in ErrorKinds
             /\ log[i + 1].chat = log[i].chat
    /\ (HasFailed("text") \/ HasFailed("audio")) => ~WorkerEnded

\* C18: an audio attachment is labelled with the provider whose call
\* produced the bytes of this message, never with the placeholder label and
\* never when both providers failed.
C18_AudioLabelNamesProvider ==
    \A i \in 1..Len(log) :
        log[i].kind = "audio" =>
            /\ log[i].performer \in {"ElevenLabs", "gTTS"}
            /\ log[i].performer = "ElevenLabs" =>
                  (HasOk("primary") /\ ~Has("fallback"))
            /\ log[i].performer = "gTTS" =>
                  (HasOk("fallback") /\ ~HasOk("primary"))
            /\ ~HasFailed("fallback")

\* C18 witness: ElevenLabs failed, gTTS produced the audio, and the
\* attachment was sent.
C18_Witness ==
    /\ HasFailed("primary")
    /\ HasOk("fallback")
    /\ HasOk("audio")

\* C19: every message the worker has dequeued had its acknowledgment sent
\* before.
C19_AckBeforeDequeue ==
    \A i \in 1..Len(started) : hpc[started[i]] = "acked"

\* C20: task_done is called exactly once in every iteration, so the calls
\* never exceed the gets and, at the dequeue point, the unfinished-task
\* count is the number of queued messages.
C20_TaskDoneOncePerIteration ==
    /\ Count("task_done") <= 1
    /\ Cardinality(done) <= Len(started)
    /\ wpc = "get" => unfinished = Len(processing_queue)
    /\ (BackAtGet \/ WorkerEnded) => Count("task_done") = 1

\* The texts of Texts that are a /start, /help, /set or /about command.
CommandTexts ==
    {TextStart, TextHelp, TextAbout, TextSet, TextSetNorth, TextSetSOUTH,
     TextSetX}

\* The handler invocation for message m has passed its first statement.
Handled(m) == hpc[m] \notin {"none", "handle"}
\* The number of put() calls made for message m.
Puts(m) == Cardinality({i \in 1..Len(enq) : enq[i] = m})

\* C14: a handled text that is none of the four commands and is not blank
\* has been put on the queue exactly once and its handler is at, or past,
\* the acknowledgment send; a blank text or one of the four commands is
\* never put on the queue.
C14_PlainTextsEnqueuedOnce ==
    \A m \in Ids :
        LET text == msgs[m].text
            plain == text \notin CommandTexts /\ Strip(text) # <<>>
        IN /\ (Handled(m) /\ plain) =>
                (Puts(m) = 1 /\ hpc[m] \in {"ack", "acked"})
           /\ ~plain => (Puts(m) = 0 /\ hpc[m] \notin {"ack", "acked"})

\* C14 witness: a text with a command after a leading blank was enqueued
\* and acknowledged, a blank text was skipped and a /set was handled.
C14_Witness ==
    \E m, n \in Ids :
        /\ msgs[m].text = TextLateSet
        /\ hpc[m] = "acked"
        /\ m \in done
        /\ msgs[n].text \in {TextBlank, TextSetNorth}
        /\ hpc[n] \in {"skipped", "set"}

\* Every stored target is "south" or "north".
StoredTargetsValid ==
    \A c \in DOMAIN user_settings :
        user_settings[c].target \in
            {<<"s", "o", "u", "t", "h">>, <<"n", "o", "r", "t", "h">>}

\* The texts of Texts that are a /set without a valid argument.
BadSetTexts == {TextSet, TextSetX}

\* C15: the handler of a /set without argument, or with an argument other
\* than south/north, leaves user_settings as it is and sends the usage hint;
\* every stored target is "south" or "north".
C15_InvalidSetChangesNothing ==
    /\ []StoredTargetsValid
    /\ [][\A m \in Ids :
            (hpc[m] = "handle" /\ hpc'[m] # "handle"
                /\ msgs[m].text \in BadSetTexts) =>
            (user_settings' = user_settings /\ hpc'[m] = "usage")]_vars

\* C15 witness: a /set x got the usage hint while the store holds the target
\* an earlier /set SOUTH stored in lower case.
C15_Witness ==
    \E m, n \in Ids :
        /\ msgs[m].text = TextSetX
        /\ hpc[m] = "usage"
        /\ msgs[n].text = TextSetSOUTH
        /\ hpc[n] = "set"
        /\ user_settings[msgs[n].chat].target = <<"s", "o", "u", "t", "h">>

\* The worker step that builds and sends the text reply (lines 242-250).
BuildsReply == wpc = "text" /\ wpc' # "text"
\* The target label of the reply that step sends.
ReplyLabel == log'[Len(log')].target

\* C16: when the worker looks up the target of a chat that has no entry in
\* user_settings, it gets "south" and user_settings is left as it is.
C16_UnsetChatGetsSouth ==
    [][(BuildsReply /\ chat_id \notin DOMAIN user_settings) =>
          /\ ReplyLabel = <<"s", "o", "u", "t", "h">>
          /\ user_settings' = user_settings]_vars

\* C16 witness: a reply labelled "south" went to a chat without an entry
\* while the other chat has one.
C16_Witness ==
    \E i \in 1..Len(log) :
        /\ log[i].kind = "text"
        /\ log[i].chat \notin DOMAIN user_settings
        /\ DOMAIN user_settings # {}
        /\ log[i].target = <<"s", "o", "u", "t", "h">>

\* C17: the label of a text reply is the target stored for the chat when
\* the worker builds the reply ("south" without an entry).
C17_LabelIsTargetAtReply ==
    [][BuildsReply =>
          ReplyLabel = IF chat_id \in DOMAIN user_settings
                       THEN user_settings[chat_id].target
                       ELSE <<"s", "o", "u", "t", "h">>]_vars

\* C17 witness: the reply's label is not the target the chat had when the
\* message was put on the queue: a /set came in between.
C17_Witness ==
    \E i \in 1..Len(log) :
        /\ log[i].kind = "text"
        /\ log[i].target # put_target[message]
        /\ log[i].target = user_settings[log[i].chat].target

\* The body of the direct request has a string field text that is not
\* blank.
HasText ==
    /\ request_body.kind = "object"
    /\ request_body.has
    /\ request_body.value \notin {None, <<>>, TextBlank}

\* A returned field that is a non-empty string.
NonEmpty(x) == x # None /\ Len(x) > 0

\* C12: translate_with_gemini returns two non-empty strings or (None, None),
\* whatever lines the LLM response is made of.
C12_BothFieldsOrNone ==
    result # <<>> =>
        \/ result = <<None, None>>
        \/ NonEmpty(result[1]) /\ NonEmpty(result[2])

\* C12 witness: a response with the romanization line first, its value
\* holding a colon, gave both fields.
C12_Witness ==
    /\ result = <<<<"k">>, <<"r", ":", "r">>>>
    /\ llm_response.text = <<LineRoman, LineKorea>>

\* C13: the answer is 400 with the "Field 'text' wajib ada." error exactly
\* when the body has no non-blank string field text, 500 with the "Gagal
\* hubungi Gemini API." error exactly when it has one and the translation
\* fails, and 200 with status success and two non-empty fields otherwise.
C13_EndpointAnswers ==
    response # NoResponse =>
        /\ response = BadRequest <=> ~HasText
        /\ response = TranslationFailed <=>
              (HasText /\ translate_with_gemini(GEMINI_API_KEY,
                              Parsed(llm_response)) = <<None, None>>)
        /\ response \notin {BadRequest, TranslationFailed} =>
              /\ response.code = 200
              /\ response.status = "success"
              /\ NonEmpty(response.translated_korean)
              /\ NonEmpty(response.romanization)
        /\ response.code = 200 => response.status = "success"

====
